---- MODULE Spec2Model ----
(***************************************************************************)
(* A model of two components of the Adversarial Robustness Toolbox:        *)
(*                                                                         *)
(*   - AttributeInferenceBlackBox (black_box.py): the constructor, fit and *)
(*     infer, with the attack object's fields as state;                    *)
(*   - CutoutTensorFlowV2.forward (cutout_tensorflow.py).                  *)
(*                                                                         *)
(* Conventions.  Python's None is the empty sequence and a present value v *)
(* is <<v>>.  Python lists and numpy vectors are sequences, matrices are   *)
(* sequences of rows.  Python indexes are 0-based and are kept 0-based as  *)
(* data: At0(s, k) reads position k of a list.  A real number produced by  *)
(* scaling is the fraction <<numerator, denominator>>.                     *)
(***************************************************************************)
EXTENDS Integers, Sequences, FiniteSets

VARIABLES
    args,   \* the arguments of the AttributeInferenceBlackBox constructor
    pc,     \* "new" before the constructor ran, then "ready" or "failed"
    obj,    \* the fields of the attack object
    last,   \* the most recent call on it: arguments, locals, outcome
    hist,   \* history: what the most recent fit computed and trained on
    cut     \* the CutoutTensorFlowV2 object and its most recent forward

vars == <<args, pc, obj, last, hist, cut>>

-----------------------------------------------------------------------------
(* Bounds of the model.                                                    *)

\* Cells of the attacked columns and labels range over 0..MaxVal.
MaxVal == 2
\* The matrices handed to fit have at most MaxCols columns.
MaxCols == 5
\* The bounding-box length of the Cutout defence ranges over 1..MaxLength.
MaxLength == 4

\* Row indexes of every matrix handed to fit and infer (two samples).
Rows == 1..2

-----------------------------------------------------------------------------
(* Python values.                                                          *)

None == <<>>
Some(v) == <<v>>
IsNone(o) == o = <<>>
Get(o) == o[1]

At0(s, k) == s[k + 1]

Min(a, b) == IF a < b THEN a ELSE b

SetMin(S) == CHOOSE m \in S : \A e \in S : m <= e
SetMax(S) == CHOOSE m \in S : \A e \in S : m >= e

RECURSIVE SortedSeq(_)
\* The elements of a finite set of integers in increasing order.
SortedSeq(S) ==
    IF S = {} THEN <<>>
    ELSE LET m == SetMin(S) IN <<m>> \o SortedSeq(S \ {m})

Range(s) == {s[i] : i \in DOMAIN s}

\* Column j (0-based) of a matrix, as a vector.
Column(m, j) == [r \in DOMAIN m |-> At0(m[r], j)]

\* The columns cols (a sequence of 0-based indexes) of a matrix.
Columns(m, cols) == [r \in DOMAIN m |-> [i \in DOMAIN cols |-> At0(m[r], cols[i])]]

NCols(m) == Len(m[1])

\* np.argmax of a vector: the first position (0-based) of the maximum.
ArgMax(arr) ==
    LET mx == SetMax(Range(arr))
    IN  SetMin({i \in DOMAIN arr : arr[i] = mx}) - 1

\* A one-hot row of width nb with a 1 at position k (0-based).
OneHot(k, nb) == [i \in 1..nb |-> IF i = k + 1 THEN 1 ELSE 0]

-----------------------------------------------------------------------------
(* attack_feature: an int or a slice.                                      *)

IntFeature(i) == [kind |-> "int", start |-> i, stop |-> i + 1, step |-> 1]
SliceFeature(a, b, s) == [kind |-> "slice", start |-> a, stop |-> b, step |-> s]

IsInt(af) == af.kind = "int"

\* range(start, min(stop, n), step): the columns a slice selects among n.
SliceIndices(af, n) ==
    LET stop == Min(af.stop, n)
        cnt == IF stop > af.start
               THEN (stop - af.start + af.step - 1) \div af.step
               ELSE 0
    IN  [i \in 1..cnt |-> af.start + (i - 1) * af.step]

-----------------------------------------------------------------------------
(* AttributeInferenceBlackBox.__init__                                     *)

\* The target estimators: a classifier with two classes or a regressor,
\* with input_shape unknown (None) or known.
Estimator(kind, shape) == [kind |-> kind, input_shape |-> shape, nb_classes |-> 2]

NoEncoder == [kind |-> "None", cat |-> <<>>, fitted |-> FALSE, n_features_in |-> 0]
\* An already fit OrdinalEncoder for n input features.
FitOrdinalEncoder(n) ==
    [kind |-> "OrdinalEncoder", cat |-> <<>>, fitted |-> TRUE, n_features_in |-> n]

\* _check_params: "ok", or the exception it raises.  is_continuous is a
\* bool, non_numerical_features a list of int and encoder one of the three
\* accepted classes in every argument record of the model.
CheckParams(a) ==
    IF a.attack_model_type \notin {"nn", "rf"}
        THEN "ValueError"
    ELSE IF a.estimator.kind # "regressor" /\ a.prediction_normal_factor # 1
        THEN "ValueError"
    ELSE "ok"

\* The outcome of the constructor called with the arguments a.
InitOutcome(a) ==
    IF CheckParams(a) # "ok" THEN "ValueError"
    ELSE IF a.attack_model # "None" THEN
        IF a.is_continuous
            THEN (IF a.attack_model # "regressor" THEN "ValueError" ELSE "ok")
            ELSE (IF a.attack_model # "classifier" THEN "ValueError" ELSE "ok")
    ELSE IF a.attack_model_type = "nn" THEN "ok"
    ELSE IF a.attack_model_type = "rf" THEN "ok"
    ELSE "ValueError"

\* The attack model held after construction: the one supplied, a fresh
\* random forest, or (nn) none yet: fit creates it from _attack_class.
InitAttackModel(a) ==
    [kind |-> IF a.attack_model # "None" THEN "supplied"
              ELSE IF a.attack_model_type = "nn" THEN "unset"
              ELSE "rf",
     trained |-> FALSE, num_features |-> 0, num_classes |-> 0]

\* The fields of the object a successful constructor leaves.
InitObject(a) ==
    [estimator |-> a.estimator,
     attack_feature |-> a.attack_feature,
     _values |-> None,
     _attack_model_type |-> IF a.attack_model # "None" THEN "None"
                            ELSE a.attack_model_type,
     _encoder |-> a.encoder,
     _non_numerical_features |-> a.non_numerical_features,
     _is_continuous |-> a.is_continuous,
     prediction_normal_factor |-> a.prediction_normal_factor,
     scale_range |-> a.scale_range,
     attack_model |-> InitAttackModel(a)]

-----------------------------------------------------------------------------
(* Library calls used by fit and infer.                                    *)

\* sklearn minmax_scale of one column to feature_range fr = <<lo, hi>>:
\* lo + (v - min) * (hi - lo) / (max - min), a constant column scaling to lo.
MinMaxScale(col, fr) ==
    LET mn == SetMin(Range(col))
        mx == SetMax(Range(col))
        rng == IF mx = mn THEN 1 ELSE mx - mn
    IN  [r \in DOMAIN col |-> <<fr[1] * rng + (col[r] - mn) * (fr[2] - fr[1]), rng>>]

\* A column multiplied by a factor.
TimesFactor(col, f) == [r \in DOMAIN col |-> <<col[r] * f, 1>>]

\* check_and_transform_label_format(y, nb_classes, return_one_hot=True) of a
\* vector of class labels.
ToOneHot(y, nb) == [r \in DOMAIN y |-> OneHot(y[r], nb)]

\* vector.reshape(-1, 1)
Reshape(col) == [r \in DOMAIN col |-> <<col[r]>>]

\* get_feature_values: the distinct values of the attacked column in
\* increasing order, one such list per column for a multi-column feature.
GetFeatureValues(y_attack, single_index_feature) ==
    IF single_index_feature
        THEN SortedSeq(Range(y_attack))
        ELSE [j \in 1..NCols(y_attack) |-> SortedSeq(Range(Column(y_attack, j - 1)))]

\* A column of the derived feature matrix, named by where it comes from.
Col(src, j) == [src |-> src, col |-> j]

\* Whether a ColumnTransformer can select the columns idx among w columns.
ValidColumns(idx, w) == \A i \in DOMAIN idx : idx[i] >= -w /\ idx[i] <= w - 1

\* encoder.transform of a matrix with the columns cols: an OrdinalEncoder
\* keeps the column order; the ColumnTransformer puts the encoded columns
\* first and passes the remainder through in order.
EncoderTransform(enc, cols) ==
    IF enc.kind # "ColumnTransformer" THEN cols
    ELSE LET w == Len(cols)
             pos(k) == IF k < 0 THEN w + k + 1 ELSE k + 1
             chosen == {pos(enc.cat[i]) : i \in DOMAIN enc.cat}
             rest == SortedSeq((1..w) \ chosen)
         IN  [i \in DOMAIN enc.cat |-> cols[pos(enc.cat[i])]]
             \o [i \in DOMAIN rest |-> cols[rest[i]]]

\* Whether encoder.transform accepts a matrix of w columns.
CanTransform(enc, w) == enc.fitted /\ enc.n_features_in = w

-----------------------------------------------------------------------------
(* AttributeInferenceBlackBox.fit                                          *)

\* Faulty variant of FitChecks: the input_shape of the estimator is not compared.
FitChecksWithoutShape(o, x) ==
    IF IsInt(o.attack_feature) /\ o.attack_feature.start >= NCols(x)
        THEN 220
    ELSE 0

\* The checks that open fit: 0 when they pass, else the line that raises
\* ValueError.
FitChecks(o, x) ==
    IF ~IsNone(o.estimator.input_shape) /\ Get(o.estimator.input_shape) # NCols(x)
        THEN 218
    ELSE IF IsInt(o.attack_feature) /\ o.attack_feature.start >= NCols(x)
        THEN 220
    ELSE 0

\* The model's predictions for x as fit feeds them to the attack model.
\* est is estimator.predict(x): a row of class scores per sample for a
\* classifier, a value per sample for a regressor.
FitPredictions(o, est) ==
    IF o.estimator.kind = "classifier"
        THEN Reshape([r \in DOMAIN est |-> ArgMax(est[r])])
    ELSE IF ~IsNone(o.scale_range)
        THEN Reshape(MinMaxScale(est, Get(o.scale_range)))
    ELSE Reshape(TimesFactor(est, o.prediction_normal_factor))

\* The true labels as fit feeds them to the attack model (None when y is).
FitLabels(o, y) ==
    IF IsNone(y) THEN None
    ELSE IF o.estimator.kind = "classifier"
        THEN Some(ToOneHot(Get(y), o.estimator.nb_classes))
    ELSE IF ~IsNone(o.scale_range)
        THEN Some(Reshape(MinMaxScale(Get(y), Get(o.scale_range))))
    ELSE Some(Reshape(TimesFactor(Get(y), o.prediction_normal_factor)))

\* x[:, attack_feature]: a vector for an int, a matrix for a slice.
AttackedColumns(x, af) ==
    IF IsInt(af) THEN Column(x, af.start)
    ELSE Columns(x, SliceIndices(af, NCols(x)))

\* The columns of x (0-based indexes) that np.delete(x, attack_feature, 1)
\* keeps, in order.
NpDelete(n, af) ==
    LET gone == IF IsInt(af) THEN {af.start}
                ELSE {SliceIndices(af, n)[i] : i \in DOMAIN SliceIndices(af, n)}
    IN  SortedSeq((0..(n - 1)) \ gone)

\* The indexes of the non-numerical features in the matrix left after the
\* attacked feature is deleted, as fit computes them.
NewIndexes(af, non_numerical_features) ==
    LET compare_index == af.start
        size == IF IsInt(af) THEN 1 ELSE (af.stop - af.start) \div af.step
    IN  [i \in DOMAIN non_numerical_features |->
            IF non_numerical_features[i] > compare_index
                THEN non_numerical_features[i] - size
                ELSE non_numerical_features[i]]

\* Faulty variant of FitConcat: the labels are not appended.
FitConcatWithoutLabels(x_train, predictions, y) ==
    x_train \o [j \in 1..NCols(predictions) |-> Col("pred", j - 1)]

\* np.concatenate((x_train, predictions), axis=1), then y when given: the
\* columns of the derived feature matrix.
FitConcat(x_train, predictions, y) ==
    LET with_pred == x_train \o [j \in 1..NCols(predictions) |-> Col("pred", j - 1)]
    IN  IF IsNone(y) THEN with_pred
        ELSE with_pred \o [j \in 1..NCols(Get(y)) |-> Col("y", j - 1)]

\* The attack model after training on a matrix of num_features columns.
TrainedModel(o, num_features) ==
    [kind |-> IF o._attack_model_type = "nn" THEN "nn" ELSE o.attack_model.kind,
     trained |-> TRUE,
     num_features |-> num_features,
     num_classes |-> IF o._is_continuous THEN 1 ELSE Len(Get(o._values))]

\* fit(x, y), the estimator answering est: the object it leaves (obj) and
\* the record of the call (call).
Fit(o, x, y, est) ==
    LET chk == FitChecks(o, x)
        af == o.attack_feature
        predictions == FitPredictions(o, est)
        y_ready == FitLabels(o, y)
        y_attack == AttackedColumns(x, af)
        values == IF o._is_continuous THEN o._values
                  ELSE Some(GetFeatureValues(y_attack, IsInt(af)))
        x_train == NpDelete(NCols(x), af)
        make_encoder == o._non_numerical_features # <<>> /\ o._encoder.kind = "None"
        new_indexes == NewIndexes(af, o._non_numerical_features)
        fit_ok == ~make_encoder \/ ValidColumns(new_indexes, Len(x_train))
        encoder == IF make_encoder
                   THEN [kind |-> "ColumnTransformer", cat |-> new_indexes,
                         fitted |-> fit_ok, n_features_in |-> Len(x_train)]
                   ELSE o._encoder
        transform_ok == encoder.kind = "None" \/ CanTransform(encoder, Len(x_train))
        x_cols == [i \in DOMAIN x_train |-> Col("x", x_train[i])]
        x_encoded == IF encoder.kind = "None" THEN x_cols
                     ELSE EncoderTransform(encoder, x_cols)
        derived == FitConcat(x_encoded, predictions, y_ready)
        o1 == [o EXCEPT !._values = values, !._encoder = encoder]
        asked == [x |-> x, y |-> y, est |-> est]
        computed == [predictions |-> predictions,
                     y_ready |-> y_ready, x_train |-> x_train,
                     new_indexes |-> IF make_encoder THEN Some(new_indexes) ELSE None]
    IN  IF chk # 0 THEN
            [obj |-> o,
             call |-> [op |-> "fit", outcome |-> "ValueError", raised_at |-> chk,
                       asked |-> asked]]
        ELSE IF ~fit_ok THEN
            [obj |-> o1,
             call |-> [op |-> "fit", outcome |-> "ValueError", raised_at |-> 269,
                       asked |-> asked, computed |-> computed]]
        ELSE IF ~transform_ok THEN
            [obj |-> o1,
             call |-> [op |-> "fit", outcome |-> "ValueError", raised_at |-> 272,
                       asked |-> asked, computed |-> computed]]
        ELSE
            [obj |-> [o1 EXCEPT !.attack_model = TrainedModel(o1, Len(derived))],
             call |-> [op |-> "fit", outcome |-> "ok", raised_at |-> 0,
                       asked |-> asked, computed |-> computed, derived |-> derived]]

-----------------------------------------------------------------------------
(* AttributeInferenceBlackBox.infer                                        *)

\* minmax_scale and the product by a factor, column by column of a matrix.
ScaleMatrix(m, fr) ==
    [r \in DOMAIN m |-> [j \in 1..NCols(m) |-> MinMaxScale(Column(m, j - 1), fr)[r]]]

TimesMatrix(m, f) ==
    [r \in DOMAIN m |-> [j \in 1..NCols(m) |-> <<m[r][j] * f, 1>>]]

\* The values in effect after the kwarg `values` is read: the ones given
\* replace the stored ones.
InferValues(o, values) == IF ~IsNone(values) THEN values ELSE o._values

\* The checks of infer: 0 when they pass, else the line that raises
\* ValueError.
InferChecks(o, x, pred) ==
    IF IsNone(pred) THEN 343
    ELSE IF Len(Get(pred)) # Len(x) THEN 346
    ELSE IF /\ ~IsNone(o.estimator.input_shape)
            /\ IsInt(o.attack_feature)
            /\ Get(o.estimator.input_shape) # NCols(x) + 1
        THEN 349
    ELSE 0

\* Faulty variant of InferPredictions: the factor is applied whether or not a
\* scale_range is supplied.
InferPredictionsFactorOnly(o, pred) ==
    IF o.estimator.kind = "regressor"
        THEN TimesMatrix(pred, o.prediction_normal_factor)
        ELSE pred

\* pred as infer feeds it to the attack model.
InferPredictions(o, pred) ==
    IF o.estimator.kind = "regressor" THEN
        IF ~IsNone(o.scale_range)
            THEN ScaleMatrix(pred, Get(o.scale_range))
            ELSE TimesMatrix(pred, o.prediction_normal_factor)
    ELSE pred

\* The true labels as infer feeds them to the attack model.
InferLabels(o, y) ==
    IF IsNone(y) THEN None
    ELSE IF o.estimator.kind = "regressor" THEN
        IF ~IsNone(o.scale_range)
            THEN Some(Reshape(MinMaxScale(Get(y), Get(o.scale_range))))
            ELSE Some(Reshape(TimesFactor(Get(y), o.prediction_normal_factor)))
    ELSE Some(ToOneHot(Get(y), o.estimator.nb_classes))

\* np.concatenate((x_test, pred), axis=1), then y when given.
InferConcat(x_test, pred, y) ==
    LET with_pred == x_test \o [j \in 1..NCols(pred) |-> Col("pred", j - 1)]
    IN  IF IsNone(y) THEN with_pred
        ELSE with_pred \o [j \in 1..NCols(Get(y)) |-> Col("y", j - 1)]

\* The attack model's answer as infer holds it before the values are
\* mapped: the nn branch turns each row of a categorical answer into a
\* one-hot row at its maximum, the other models' answer is kept.
AttackPredictions(o, out) ==
    IF o._attack_model_type = "nn" /\ ~o._is_continuous
        THEN [r \in DOMAIN out |-> OneHot(ArgMax(out[r]), Len(out[r]))]
        ELSE out

\* Faulty variant of MapValuesInt: the value at the first position, whatever the
\* row holds.
MapValuesIntFirst(values, predictions) ==
    [r \in DOMAIN predictions |-> At0(values, 0)]

\* Single-column feature: each row becomes the value at its maximum.
MapValuesInt(values, predictions) ==
    [r \in DOMAIN predictions |-> At0(values, ArgMax(predictions[r]))]

RECURSIVE Place(_, _, _)
\* for index in range(len(vals)): np.place(column, column == index,
\* vals[index]), from index on.
Place(column, vals, index) ==
    IF index >= Len(vals) THEN column
    ELSE Place([r \in DOMAIN column |->
                    IF column[r] = index THEN At0(vals, index) ELSE column[r]],
               vals, index + 1)

\* Multi-column feature: column i is rewritten in place with values[i].
MapValuesSlice(values, predictions) ==
    LET columns == [i \in 1..NCols(predictions) |->
                        Place(Column(predictions, i - 1), values[i], 0)]
    IN  [r \in DOMAIN predictions |-> [i \in 1..NCols(predictions) |-> columns[i][r]]]

\* 0 when the mapping of the values runs through, else the line whose
\* list index is out of range (IndexError).
MapChecks(af, values, predictions) ==
    IF IsInt(af) THEN
        IF \E r \in DOMAIN predictions : ArgMax(predictions[r]) >= Len(values)
            THEN 405 ELSE 0
    ELSE IF Len(values) < NCols(predictions) THEN 409 ELSE 0

\* infer(x, y, pred=pred, values=values), the attack model answering out:
\* the object it leaves (obj) and the record of the call (call).
Infer(o, x, y, pred, values, out) ==
    LET chk == InferChecks(o, x, pred)
        o1 == [o EXCEPT !._values = InferValues(o, values)]
        asked == [x |-> x, y |-> y, pred |-> pred, values |-> values, out |-> out]
        x_cols == [j \in 1..NCols(x) |-> Col("x", j - 1)]
        transform_ok == o._encoder.kind = "None" \/ CanTransform(o._encoder, NCols(x))
        x_test == IF o._encoder.kind = "None" THEN x_cols
                  ELSE EncoderTransform(o._encoder, x_cols)
        pred_ready == InferPredictions(o, Get(pred))
        y_ready == InferLabels(o, y)
        derived == InferConcat(x_test, pred_ready, y_ready)
        model_ok == o.attack_model.trained
                    /\ o.attack_model.num_features = Len(derived)
        predictions == AttackPredictions(o1, out)
        mapped == ~o1._is_continuous /\ ~IsNone(o1._values)
        map_chk == IF mapped
                   THEN MapChecks(o.attack_feature, Get(o1._values), predictions)
                   ELSE 0
        result == IF ~mapped THEN predictions
                  ELSE IF IsInt(o.attack_feature)
                      THEN MapValuesInt(Get(o1._values), predictions)
                      ELSE MapValuesSlice(Get(o1._values), predictions)
    IN  IF chk # 0 THEN
            [obj |-> o1,
             call |-> [op |-> "infer", outcome |-> "ValueError", raised_at |-> chk,
                       asked |-> asked]]
        ELSE IF ~transform_ok THEN
            [obj |-> o1,
             call |-> [op |-> "infer", outcome |-> "ValueError", raised_at |-> 353,
                       asked |-> asked]]
        ELSE IF ~model_ok THEN
            [obj |-> o1,
             call |-> [op |-> "infer", outcome |-> "ValueError", raised_at |-> 400,
                       asked |-> asked, pred_ready |-> pred_ready,
                       y_ready |-> y_ready, derived |-> derived]]
        ELSE IF map_chk # 0 THEN
            [obj |-> o1,
             call |-> [op |-> "infer", outcome |-> "IndexError", raised_at |-> map_chk,
                       asked |-> asked, pred_ready |-> pred_ready,
                       y_ready |-> y_ready, derived |-> derived,
                       predictions |-> predictions]]
        ELSE
            [obj |-> o1,
             call |-> [op |-> "infer", outcome |-> "ok", raised_at |-> 0,
                       asked |-> asked, pred_ready |-> pred_ready,
                       y_ready |-> y_ready, derived |-> derived,
                       predictions |-> predictions, result |-> result]]

-----------------------------------------------------------------------------
(* The actions on the attack object.                                       *)

NoHistory == [values |-> None, trained |-> FALSE, ncols |-> 0, attacked |-> 0,
              y_given |-> FALSE]

\* attack = AttributeInferenceBlackBox(**args)
Construct ==
    /\ pc = "new"
    /\ pc' = IF InitOutcome(args) = "ok" THEN "ready" ELSE "failed"
    /\ obj' = IF InitOutcome(args) = "ok" THEN InitObject(args) ELSE obj
    /\ last' = [op |-> "__init__", outcome |-> InitOutcome(args)]
    /\ UNCHANGED <<args, hist, cut>>

\* attack.fit(x, y), the target estimator answering est for x.
FitStep(x, y, est) ==
    /\ pc = "ready"
    /\ LET r == Fit(obj, x, y, est)
       IN  /\ obj' = r.obj
           /\ last' = r.call
           /\ hist' = IF r.call.raised_at \in {218, 220} THEN hist
                      ELSE IF r.call.outcome # "ok"
                          THEN [hist EXCEPT !.values = r.obj._values]
                      ELSE [values |-> r.obj._values, trained |-> TRUE,
                            ncols |-> NCols(x),
                            attacked |-> NCols(x) - Len(r.call.computed.x_train),
                            y_given |-> ~IsNone(y)]
    /\ UNCHANGED <<args, pc, cut>>

\* attack.infer(x, y, pred=pred, values=values), the attack model answering
\* out.  The attack model is trained by fit: infer is called after a fit
\* that trained it.
InferStep(x, y, pred, values, out) ==
    /\ pc = "ready"
    /\ obj.attack_model.trained
    /\ LET r == Infer(obj, x, y, pred, values, out)
       IN  /\ obj' = r.obj
           /\ last' = r.call
    /\ UNCHANGED <<args, pc, hist, cut>>

-----------------------------------------------------------------------------
(* Inputs.                                                                 *)

Vals == 0..MaxVal

\* The matrices of n columns whose attacked columns hold values of V and
\* whose other cells, which fit reads only through library calls, are 0.
TrainingSets(af, n, V) ==
    LET att == IF IsInt(af)
               THEN (IF af.start < n THEN <<af.start>> ELSE <<>>)
               ELSE SliceIndices(af, n)
        where(j) == {i \in DOMAIN att : att[i] = j - 1}
    IN  {[r \in Rows |-> [j \in 1..n |->
            IF where(j) = {} THEN 0 ELSE cells[r][CHOOSE i \in where(j) : TRUE]]] :
         cells \in [Rows -> [DOMAIN att -> V]]}

\* The matrix of n columns of zeros.
Zeros(n) == [r \in Rows |-> [j \in 1..n |-> 0]]

\* The non-empty lists over Vals in increasing order, of at most n entries.
IncreasingLists(n) ==
    {SortedSeq(S) : S \in {T \in SUBSET Vals : T # {} /\ Cardinality(T) <= n}}

\* The answers of a model with w outputs per row, each 0 or 1.
Answers(w) == [Rows -> [1..w -> {0, 1}]]

CutIdle == [pc |-> "idle"]

\* The constructor arguments, defaults unless named.
Defaults ==
    [estimator |-> Estimator("classifier", None),
     attack_model_type |-> "nn",
     attack_model |-> "None",
     attack_feature |-> IntFeature(0),
     is_continuous |-> FALSE,
     scale_range |-> None,
     prediction_normal_factor |-> 1,
     non_numerical_features |-> <<>>,
     encoder |-> NoEncoder]

InitWith(A) ==
    /\ args \in A
    /\ pc = "new"
    /\ obj = None
    /\ last = [op |-> "none", outcome |-> "ok"]
    /\ hist = NoHistory
    /\ cut = CutIdle

-----------------------------------------------------------------------------
(* SpecInit: the constructor over its argument space.                      *)

ArgsInit ==
    {[Defaults EXCEPT !.estimator = Estimator(k, None),
                      !.attack_model_type = t,
                      !.attack_model = m,
                      !.attack_feature = af,
                      !.is_continuous = c,
                      !.scale_range = sr,
                      !.prediction_normal_factor = f] :
        k \in {"classifier", "regressor"},
        t \in {"nn", "rf", "svm"},
        m \in {"None", "classifier", "regressor"},
        af \in {IntFeature(0), SliceFeature(0, 2, 1)},
        c \in BOOLEAN,
        sr \in {None, Some(<<0, 1>>)},
        f \in {1, 2}}

SpecInit == InitWith(ArgsInit) /\ [][Construct]_vars

(* C5: when an attack_model is supplied, attack_model_type is ignored:     *)
(* construction has the outcome it has with the default type "nn", and on  *)
(* success the supplied attack model is the one held.                      *)
C5_TypeIgnoredWhenModelGiven ==
    (pc # "new" /\ args.attack_model # "None") =>
        /\ last.outcome = InitOutcome([args EXCEPT !.attack_model_type = "nn"])
        /\ pc = "ready" => (obj.attack_model.kind = "supplied"
                            /\ obj._attack_model_type = "None")

-----------------------------------------------------------------------------
(* SpecValues: fit and infer of a categorical single-column feature.       *)

ArgsValues ==
    {[Defaults EXCEPT !.attack_model_type = t, !.attack_feature = IntFeature(1),
                      !.is_continuous = c] :
        t \in {"nn", "rf"}, c \in BOOLEAN}

ValuesGiven(lists) == {None} \cup {Some(l) : l \in lists}

NextValues ==
    \/ Construct
    \/ \E x \in TrainingSets(args.attack_feature, 3, Vals) :
           FitStep(x, None, Zeros(2))
    \/ /\ pc = "ready"
       /\ \E values \in ValuesGiven(IncreasingLists(MaxVal + 1)),
             out \in Answers(obj.attack_model.num_classes) :
              InferStep(Zeros(2), None, Some(Zeros(1)), values, out)

SpecValues == InitWith(ArgsValues) /\ [][NextValues]_vars

\* An infer call on a categorical feature that returned.
InferReturned ==
    last.op = "infer" /\ last.outcome = "ok" /\ ~obj._is_continuous

(* C1: for a categorical single-column feature and a non-empty list of     *)
(* values in effect, every element infer returns is values[k] with k a     *)
(* position of the maximum of the attack model's output for that row, so   *)
(* every returned element is a member of the list of values.               *)
C1_InferReturnsValueAtMaximum ==
    (/\ InferReturned
     /\ IsInt(obj.attack_feature)
     /\ ~IsNone(obj._values)
     /\ Get(obj._values) # <<>>) =>
        \A r \in DOMAIN last.result :
            /\ \E k \in 0..(Len(last.asked.out[r]) - 1) :
                  /\ \A j \in DOMAIN last.asked.out[r] :
                        last.asked.out[r][j] <= At0(last.asked.out[r], k)
                  /\ last.result[r] = At0(Get(obj._values), k)
            /\ last.result[r] \in Range(Get(obj._values))

\* Two rows whose maxima sit at different positions map to different
\* values of a list of three, with the nn model and with the random forest.
C1_Witness ==
    /\ InferReturned
    /\ IsInt(obj.attack_feature)
    /\ Len(Get(obj._values)) = 3
    /\ last.asked.out = <<(<<0, 1>>), (<<1, 0>>)>>
    /\ last.result[1] = Get(obj._values)[2]
    /\ last.result[2] = Get(obj._values)[1]

(* C2: an infer call that is not given `values` maps the attack model's    *)
(* output with the values the most recent fit computed from the training   *)
(* data, whatever an earlier infer call was given.                         *)
C2_InferWithoutValuesUsesFitValues ==
    (InferReturned /\ IsNone(last.asked.values) /\ IsInt(obj.attack_feature)) =>
        last.result = MapValuesInt(Get(hist.values), last.predictions)

-----------------------------------------------------------------------------
(* SpecSlice: fit and infer of a categorical feature of two columns.       *)

ArgsSlice ==
    {[Defaults EXCEPT !.attack_model_type = t,
                      !.attack_feature = SliceFeature(1, 3, 1)] :
        t \in {"nn", "rf"}}

\* A list per attacked column: two values in increasing order.
ListsOfLists ==
    {<<a, b>> : a \in {<<0, 1>>, <<1, 2>>}, b \in {<<0, 1>>, <<1, 2>>}}

NextSlice ==
    \/ Construct
    \/ \E x \in TrainingSets(args.attack_feature, 3, {0, 1}) :
           FitStep(x, None, Zeros(2))
    \/ /\ pc = "ready"
       /\ \E values \in ValuesGiven(ListsOfLists),
             out \in Answers(obj.attack_model.num_classes) :
              InferStep(Zeros(1), None, Some(Zeros(1)), values, out)

SpecSlice == InitWith(ArgsSlice) /\ [][NextSlice]_vars

(* C4: for a categorical feature of several columns and a list of lists    *)
(* `values` with increasing inner lists, every entry of column i that      *)
(* infer returns is values[i][k], k being the entry the attack model       *)
(* predicted at that row and column.                                       *)
C4_InferReturnsValueAtIndex ==
    (/\ InferReturned
     /\ ~IsInt(obj.attack_feature)
     /\ ~IsNone(last.asked.values)) =>
        \A r \in DOMAIN last.result : \A i \in DOMAIN last.result[r] :
            last.result[r][i] = At0(Get(last.asked.values)[i], last.predictions[r][i])

-----------------------------------------------------------------------------
(* SpecEncode: fit building the encoder of the non-numerical features.     *)

\* range(start, stop, step): every column a feature names.
FeatureColumns(af) ==
    IF IsInt(af) THEN {af.start}
    ELSE {SliceIndices(af, af.stop)[i] : i \in DOMAIN SliceIndices(af, af.stop)}

Features ==
    {IntFeature(i) : i \in 0..2}
    \cup {SliceFeature(a, b, 1) : a \in 0..1, b \in 2..(MaxCols - 1)}
    \cup {SliceFeature(a, b, 2) : a \in 0..1, b \in 3..MaxCols}

\* The lists of one or two feature indexes, none of them attacked.
NonNumerical(af) ==
    {SortedSeq(S) : S \in {T \in SUBSET ((0..(MaxCols - 1)) \ FeatureColumns(af)) :
                              Cardinality(T) \in {1, 2}}}

ArgsEncode ==
    UNION {{[Defaults EXCEPT !.attack_model_type = "rf",
                             !.attack_feature = af,
                             !.non_numerical_features = nnf] :
                nnf \in NonNumerical(af)} : af \in Features}

\* The numbers of columns of x for which fit gets past its checks, the
\* feature attacks a column of x and every non-numerical feature is one.
ColumnCounts(a) ==
    {n \in 2..MaxCols : /\ a.attack_feature.start < n
                        /\ \A i \in DOMAIN a.non_numerical_features :
                              a.non_numerical_features[i] < n}

NextEncode ==
    \/ Construct
    \/ \E n \in ColumnCounts(args) : FitStep(Zeros(n), None, Zeros(2))
    \/ /\ pc = "ready"
       /\ \E n \in 1..(MaxCols - 1) :
              InferStep(Zeros(n), None, Some(Zeros(1)), None,
                        Zeros(obj.attack_model.num_classes))

SpecEncode == InitWith(ArgsEncode) /\ [][NextEncode]_vars

(* C3: when fit builds the encoder from non_numerical_features, none of    *)
(* them attacked, the indexes it hands to the ordinal encoder point, in    *)
(* the matrix left after the attacked columns are deleted, at the columns  *)
(* of x that non_numerical_features names.                                 *)
C3_NewIndexesPointAtSameColumns ==
    (/\ last.op = "fit"
     /\ last.raised_at \notin {218, 220}
     /\ ~IsNone(last.computed.new_indexes)) =>
        LET idx == Get(last.computed.new_indexes)
            kept == last.computed.x_train
        IN  \A i \in DOMAIN idx :
                /\ idx[i] \in 0..(Len(kept) - 1)
                /\ At0(kept, idx[i]) = obj._non_numerical_features[i]

-----------------------------------------------------------------------------
(* SpecLayout: the checks of fit and the derived feature matrix.           *)

ArgsLayout ==
    {[Defaults EXCEPT !.estimator = Estimator(k, shape),
                      !.attack_model_type = "rf",
                      !.attack_feature = af,
                      !.non_numerical_features = nnf,
                      !.encoder = enc] :
        k \in {"classifier", "regressor"},
        shape \in {None, Some(MaxCols - 1)},
        af \in {IntFeature(1), IntFeature(MaxCols - 1), SliceFeature(1, 3, 1)},
        nnf \in {<<>>, <<0>>},
        enc \in {NoEncoder, FitOrdinalEncoder(MaxCols - 2)}}

\* An answer of the target estimator for the two rows: class scores per
\* row for a classifier, a value per row for a regressor.
SomeAnswer(o) ==
    IF o.estimator.kind = "classifier" THEN Zeros(o.estimator.nb_classes)
    ELSE [r \in Rows |-> r]

\* Labels for the two rows, or none.
LabelsGiven == {None, Some([r \in Rows |-> r - 1])}

NextLayout ==
    \/ Construct
    \/ \E n \in 3..MaxCols, y \in LabelsGiven : FitStep(Zeros(n), y, SomeAnswer(args))
    \/ /\ pc = "ready"
       /\ \E n \in 2..(MaxCols - 1), y \in LabelsGiven, w \in {1, 2} :
              InferStep(Zeros(n), y, Some(Zeros(w)), None,
                        Zeros(obj.attack_model.num_classes))

SpecLayout == InitWith(ArgsLayout) /\ [][NextLayout]_vars

\* The conditions under which fit is to reject x.
BadFitInput(o, x) ==
    \/ ~IsNone(o.estimator.input_shape) /\ Get(o.estimator.input_shape) # NCols(x)
    \/ IsInt(o.attack_feature) /\ o.attack_feature.start >= NCols(x)

(* C7: a fit call whose x does not match the estimator's known input_shape *)
(* or whose int attack_feature is no column of x raises ValueError and     *)
(* leaves the attack object as it was.                                     *)
C7_FitRejectsBadInput ==
    [][(last'.op = "fit" /\ pc = "ready" /\ BadFitInput(obj, last'.asked.x)) =>
            (last'.outcome = "ValueError" /\ obj' = obj)]_vars

\* A trained attack object rejects a later fit: once for the shape, once
\* for the attack_feature.
C7_Witness ==
    /\ last.op = "fit"
    /\ last.outcome = "ValueError"
    /\ last.raised_at = 220
    /\ obj.attack_model.trained
    /\ ~IsNone(obj._values)

\* The sources of the columns of a derived feature matrix.
Sources(derived) == [i \in DOMAIN derived |-> derived[i].src]

\* nx columns of x, then np columns of predictions, then ny of labels.
Blocks(nx, np, ny) ==
    [i \in 1..(nx + np + ny) |->
        IF i <= nx THEN "x" ELSE IF i <= nx + np THEN "pred" ELSE "y"]

\* The columns the true labels take in the derived matrix.
LabelWidth(o, y) ==
    IF IsNone(y) THEN 0
    ELSE IF o.estimator.kind = "classifier" THEN o.estimator.nb_classes ELSE 1

(* C9: fit derives [x without the attacked feature, prediction, labels     *)
(* when y is given] and infer derives [x, pred, labels when y is given],   *)
(* in that order; when pred has one column, y is given to both calls or to *)
(* neither and x has the columns fit kept, infer hands the attack model as *)
(* many columns as it was trained on.                                      *)
C9_SameLayoutInFitAndInfer ==
    /\ (last.op = "fit" /\ last.outcome = "ok") =>
          /\ Sources(last.derived) =
                Blocks(Len(last.computed.x_train), 1, LabelWidth(obj, last.asked.y))
          /\ {last.derived[i].col : i \in 1..Len(last.computed.x_train)}
                = Range(last.computed.x_train)
          /\ \A i \in DOMAIN last.computed.x_train :
                last.computed.x_train[i] \notin FeatureColumns(obj.attack_feature)
    /\ (last.op = "infer" /\ last.raised_at \notin {343, 346, 349, 353}) =>
          /\ Sources(last.derived) =
                Blocks(NCols(last.asked.x), NCols(Get(last.asked.pred)),
                       LabelWidth(obj, last.asked.y))
          /\ (/\ NCols(Get(last.asked.pred)) = 1
              /\ IsNone(last.asked.y) = ~hist.y_given
              /\ NCols(last.asked.x) = hist.ncols - hist.attacked) =>
                  /\ Len(last.derived) = obj.attack_model.num_features
                  /\ last.raised_at # 400

\* An infer call with labels on an encoded x, after a fit with labels: the
\* attack model accepts the derived matrix.
C9_Witness ==
    /\ last.op = "infer"
    /\ last.outcome = "ok"
    /\ ~IsNone(last.asked.y)
    /\ hist.y_given
    /\ obj._encoder.kind = "ColumnTransformer"
    /\ Len(last.derived) = obj.attack_model.num_features
    /\ Len(last.derived) > NCols(last.asked.x) + 1

-----------------------------------------------------------------------------
(* SpecScale: the predictions and labels fed to the attack model.          *)

ArgsScale ==
    {[Defaults EXCEPT !.estimator = Estimator(k, None),
                      !.attack_model_type = "rf",
                      !.scale_range = sr,
                      !.prediction_normal_factor = f] :
        k \in {"classifier", "regressor"},
        sr \in {None, Some(<<0, 1>>), Some(<<-1, 1>>)},
        f \in {1, 2}}

\* The answers of the target estimator: 0/1 scores per class for a
\* classifier, a value of Vals per row for a regressor.
EstimatorAnswers(o) ==
    IF o.estimator.kind = "classifier" THEN Answers(o.estimator.nb_classes)
    ELSE [Rows -> Vals]

\* The true labels: a class per row for a classifier; for a regressor a
\* constant column or one that spans Vals; or none.
Labels(o) ==
    {None} \cup {Some(y) : y \in IF o.estimator.kind = "classifier"
                                 THEN [Rows -> 0..(o.estimator.nb_classes - 1)]
                                 ELSE {[r \in Rows |-> 1],
                                       [r \in Rows |-> IF r = 1 THEN MaxVal ELSE 0]}}

\* pred as handed to infer: one column, a class or a value per row.
Preds(o) ==
    {Some(Reshape(p)) : p \in IF o.estimator.kind = "classifier"
                              THEN [Rows -> 0..(o.estimator.nb_classes - 1)]
                              ELSE [Rows -> Vals]}

\* A training set of two columns whose attacked column holds 0 and 1.
TwoClasses == <<(<<0, 0>>), (<<1, 0>>)>>

NextScale ==
    \/ Construct
    \/ \E y \in Labels(args), est \in EstimatorAnswers(args) :
           FitStep(TwoClasses, y, est)
    \/ /\ pc = "ready"
       /\ \E y \in Labels(args), pred \in Preds(args) :
              InferStep(Zeros(1), y, pred, None, Zeros(obj.attack_model.num_classes))

SpecScale == InitWith(ArgsScale) /\ [][NextScale]_vars

\* What the documentation promises for a regressor's predictions and
\* labels: scaled to scale_range when it is supplied, else multiplied by
\* prediction_normal_factor.
Documented(o, col) ==
    IF ~IsNone(o.scale_range) THEN MinMaxScale(col, Get(o.scale_range))
    ELSE TimesFactor(col, o.prediction_normal_factor)

\* The call reached the point where the attack model is handed its input.
Derived ==
    \/ last.op = "fit" /\ last.outcome = "ok"
    \/ last.op = "infer" /\ last.raised_at \notin {343, 346, 349, 353}

\* The predictions and labels a call was given, and what it made of them.
GivenPredictions ==
    IF last.op = "fit" THEN last.asked.est ELSE Column(Get(last.asked.pred), 0)
UsedPredictions ==
    IF last.op = "fit" THEN last.computed.predictions ELSE last.pred_ready
UsedLabels ==
    IF last.op = "fit" THEN last.computed.y_ready ELSE last.y_ready

(* C6: with a regressor, fit and infer apply the same transformation to    *)
(* the predictions and to the labels: min-max scaling to scale_range when  *)
(* it is supplied (the factor is then not applied), else multiplication by *)
(* prediction_normal_factor.  With a classifier neither parameter changes  *)
(* them: the predictions are the classes, the labels their one-hot rows.   *)
C6_SameTransformationInFitAndInfer ==
    Derived =>
        IF obj.estimator.kind = "regressor" THEN
            /\ UsedPredictions = Reshape(Documented(obj, GivenPredictions))
            /\ ~IsNone(last.asked.y) =>
                  UsedLabels = Some(Reshape(Documented(obj, Get(last.asked.y))))
        ELSE
            /\ UsedPredictions =
                  IF last.op = "fit"
                      THEN Reshape([r \in Rows |-> ArgMax(last.asked.est[r])])
                      ELSE Get(last.asked.pred)
            /\ ~IsNone(last.asked.y) =>
                  UsedLabels = Some([r \in Rows |->
                                        OneHot(Get(last.asked.y)[r], obj.estimator.nb_classes)])

\* infer with a regressor, a scale_range and a factor of 2: predictions and
\* labels are scaled, and the factor would have given something else.
C6_Witness ==
    /\ last.op = "infer"
    /\ last.outcome = "ok"
    /\ obj.estimator.kind = "regressor"
    /\ obj.scale_range = Some(<<-1, 1>>)
    /\ obj.prediction_normal_factor = 2
    /\ ~IsNone(last.asked.y)
    /\ last.pred_ready = <<(<<(<<-2, 2>>)>>), (<<(<<2, 2>>)>>)>>
    /\ last.pred_ready # TimesMatrix(Get(last.asked.pred), 2)

-----------------------------------------------------------------------------
(* CutoutTensorFlowV2                                                      *)

\* The index tuples (0-based) of a tensor of the given shape.
Indexes(shape) ==
    {p \in [DOMAIN shape -> 0..(SetMax(Range(shape)) - 1)] :
        \A d \in DOMAIN shape : p[d] < shape[d]}

\* tf.clip_by_value
Clip(v, lo, hi) == IF v < lo THEN lo ELSE IF v > hi THEN hi ELSE v

\* _check_params of the constructor.
CutoutCheckParams(length) == IF length <= 0 THEN "ValueError" ELSE "ok"

\* n, height and width as forward reads them from x.shape.
ForwardDims(channels_first, shape) ==
    IF channels_first
        THEN [n |-> shape[1], height |-> shape[3], width |-> shape[4]]
        ELSE [n |-> shape[1], height |-> shape[2], width |-> shape[3]]

\* The bounding box around a centre.
BoundingBox(length, height, width, center_y, center_x) ==
    [bby1 |-> Clip(center_y - (length \div 2), 0, height),
     bbx1 |-> Clip(center_x - (length \div 2), 0, width),
     bby2 |-> Clip(center_y + (length \div 2), 0, height),
     bbx2 |-> Clip(center_x + (length \div 2), 0, width)]

\* Faulty variant of InBBox: masks[idx, bbx1:bbx2, bby1:bby2, :] in both layouts.
InChannelsLastBox(channels_first, p, idx, bb) ==
    /\ p[1] = idx
    /\ bb.bbx1 <= p[2] /\ p[2] < bb.bbx2
    /\ bb.bby1 <= p[3] /\ p[3] < bb.bby2

\* Whether the index p lies in the part of masks that is zeroed for image
\* idx: masks[idx, :, bbx1:bbx2, bby1:bby2] when channels come first,
\* masks[idx, bbx1:bbx2, bby1:bby2, :] when they come last.
InBBox(channels_first, p, idx, bb) ==
    /\ p[1] = idx
    /\ IF channels_first
           THEN /\ bb.bbx1 <= p[3] /\ p[3] < bb.bbx2
                /\ bb.bby1 <= p[4] /\ p[4] < bb.bby2
           ELSE /\ bb.bbx1 <= p[2] /\ p[2] < bb.bbx2
                /\ bb.bby1 <= p[3] /\ p[3] < bb.bby2

RECURSIVE CutoutLoop(_, _, _, _, _)
\* The loop over the images from idx on: boxes[idx] is the bounding box
\* drawn for image idx.
CutoutLoop(channels_first, masks, idx, n, boxes) ==
    IF idx >= n THEN masks
    ELSE CutoutLoop(channels_first,
                    [p \in DOMAIN masks |->
                        IF InBBox(channels_first, p, idx, boxes[idx]) THEN 0
                        ELSE masks[p]],
                    idx + 1, n, boxes)

\* forward(x): x_aug, the centres drawn being centers[idx] = <<y, x>>.
Forward(c, x, centers) ==
    LET dims == ForwardDims(c.channels_first, x.shape)
        ones == [p \in DOMAIN x.data |-> 1]
        boxes == [idx \in 0..(dims.n - 1) |->
                    BoundingBox(c.length, dims.height, dims.width,
                                centers[idx][1], centers[idx][2])]
        masks == CutoutLoop(c.channels_first, ones, 0, dims.n, boxes)
    IN  [p \in DOMAIN x.data |-> x.data[p] * masks[p]]

\* cutout = CutoutTensorFlowV2(length, channels_first)
CutoutConstruct ==
    /\ cut.pc = "new"
    /\ cut' = [cut EXCEPT !.pc = IF CutoutCheckParams(cut.length) = "ok"
                                 THEN "ready" ELSE "failed"]
    /\ UNCHANGED <<args, pc, obj, last, hist>>

\* cutout.forward(x) of a tensor that is not 4-dimensional.
ForwardRejects(x) ==
    /\ cut.pc \in {"ready", "done"}
    /\ Len(x.shape) # 4
    /\ cut' = [pc |-> "done", length |-> cut.length,
               channels_first |-> cut.channels_first,
               outcome |-> "ValueError", x |-> x]
    /\ UNCHANGED <<args, pc, obj, last, hist>>

\* cutout.forward(x) of a 4-dimensional tensor, with the centres drawn.
ForwardStep(x, centers) ==
    /\ cut.pc \in {"ready", "done"}
    /\ Len(x.shape) = 4
    /\ cut' = [pc |-> "done", length |-> cut.length,
               channels_first |-> cut.channels_first,
               outcome |-> "ok", x |-> x, x_aug |-> Forward(cut, x, centers)]
    /\ UNCHANGED <<args, pc, obj, last, hist>>

\* Tensors: every cell 1, or every cell its index sum (0 at the origin).
Tensor(shape, ramp) ==
    [shape |-> shape,
     data |-> [p \in Indexes(shape) |->
                IF ramp THEN p[1] + p[2] + p[3] + (IF Len(shape) = 4 THEN p[4] ELSE 0)
                ELSE 1]]

\* Batches of two images with two or three rows, columns and channels.
Tensors4 ==
    {Tensor(<<2, a, b, c>>, ramp) : a \in 2..3, b \in 2..3, c \in 2..3, ramp \in BOOLEAN}

\* The centres forward can draw for the images of x.
Centres(channels_first, x) ==
    LET dims == ForwardDims(channels_first, x.shape)
    IN  [0..(dims.n - 1) -> (0..(dims.height - 1)) \X (0..(dims.width - 1))]

\* The batches handed to forward: any batch first, then the same batch
\* again, for which forward draws the centres anew.
Batches ==
    IF cut.pc = "done" /\ Len(cut.x.shape) = 4 THEN {cut.x} ELSE Tensors4

NextCutout ==
    \/ CutoutConstruct
    \/ ForwardRejects(Tensor(<<2, 2, 2>>, FALSE))
    \/ \E x \in Batches : \E centers \in Centres(cut.channels_first, x) :
           ForwardStep(x, centers)

InitCutout ==
    /\ cut \in {[pc |-> "new", length |-> l, channels_first |-> cf] :
                    l \in 0..MaxLength, cf \in BOOLEAN}
    /\ args = Defaults
    /\ pc = "none"
    /\ obj = None
    /\ last = [op |-> "none", outcome |-> "ok"]
    /\ hist = NoHistory

SpecCutout == InitCutout /\ [][NextCutout]_vars

\* The row and the column of the spatial plane an index lies at.
PlaneRow(channels_first, p) == IF channels_first THEN p[3] ELSE p[2]
PlaneColumn(channels_first, p) == IF channels_first THEN p[4] ELSE p[3]

(* C8: every element forward returns is the element of x or zero; for each *)
(* image the zeroed positions are one axis-aligned rectangle of the        *)
(* spatial plane (possibly empty), zeroed in all channels or in none, with *)
(* channels first and with channels last.                                  *)
C8_CutoutZeroesOneRectangle ==
    (cut.pc = "done" /\ cut.outcome = "ok") =>
        LET dims == ForwardDims(cut.channels_first, cut.x.shape)
            row(p) == PlaneRow(cut.channels_first, p)
            column(p) == PlaneColumn(cut.channels_first, p)
        IN  /\ \A p \in DOMAIN cut.x.data : cut.x_aug[p] \in {cut.x.data[p], 0}
            /\ (\A p \in DOMAIN cut.x.data : cut.x.data[p] # 0) =>
                  \A idx \in 0..(dims.n - 1) :
                    \E r1 \in 0..dims.height, r2 \in 0..dims.height,
                       c1 \in 0..dims.width, c2 \in 0..dims.width :
                        \A p \in {q \in DOMAIN cut.x.data : q[1] = idx} :
                            (cut.x_aug[p] = 0) <=>
                                (/\ r1 <= row(p) /\ row(p) < r2
                                 /\ c1 <= column(p) /\ column(p) < c2)

\* Channels first: the two images of a batch are cut at different places,
\* the first one partly.
C8_Witness ==
    /\ cut.pc = "done"
    /\ cut.outcome = "ok"
    /\ cut.channels_first
    /\ \A p \in DOMAIN cut.x.data : cut.x.data[p] # 0
    /\ \E p \in DOMAIN cut.x.data : p[1] = 0 /\ cut.x_aug[p] = 0
    /\ \E p \in DOMAIN cut.x.data : p[1] = 0 /\ cut.x_aug[p] # 0
    /\ \E p \in DOMAIN cut.x.data :
          cut.x_aug[p] = 0 /\ cut.x_aug[[p EXCEPT ![1] = 1 - p[1]]] # 0

====
